---- MODULE Spec2Model ----
(***************************************************************************)
(* Model of obspy/core/util/decorator.py: the call wrappers                *)
(* deprecated_keywords, skip_on_network_error and uncompress_file.         *)
(*                                                                         *)
(* Three specifications share the module, one per wrapper:                 *)
(*   Spec          uncompress_file        (decorator.py 134-209)           *)
(*   SpecKeywords  deprecated_keywords    (decorator.py 54-108)            *)
(*   SpecSkip      skip_on_network_error  (decorator.py 111-131)           *)
(***************************************************************************)
EXTENDS Integers, Sequences, FiniteSets, TLC

VARIABLES
    \* ---- deprecated_keywords ----
    keywords,       \* the decorator's dict old -> new, in insertion order
    kwargs,         \* the call's keyword arguments, in insertion order
    kwargs0,        \* history: kwargs as the caller passed them
    dk_pc,          \* position in echo_func
    dk_error,       \* the fields of the exception echo_func raised
    dk_warnings,    \* the warnings emitted so far
    func_calls,     \* the mappings func was called with
    \* ---- skip_on_network_error ----
    sn_pc,          \* position in the wrapper
    sn_exc,         \* what func did in this run
    sn_log,         \* outcomes of the finished runs of the wrapper
    \* ---- uncompress_file ----
    input,          \* filename, check_compression and what is on disk there
    uf_pc,          \* position in uncompress_file
    obj_list,       \* the extracted payloads
    idx,            \* position of the for loop in obj_list
    result,         \* the aggregate built so far
    temps,          \* the temporary files that exist: name -> content
    ntemp,          \* number of temporary files created so far
    ntemp0,         \* history: ntemp when the current run began
    tempfile,       \* name of the NamedTemporaryFile of the open with block
    calls,          \* the invocations of func made by the current run
    uf_error,       \* the exception the run propagated, or NoError
    run             \* number of the current run of uncompress_file

dkVars == <<keywords, kwargs, kwargs0, dk_pc, dk_error, dk_warnings,
            func_calls>>
snVars == <<sn_pc, sn_exc, sn_log>>
ufVars == <<input, uf_pc, obj_list, idx, result, temps, ntemp, ntemp0, tempfile,
            calls, uf_error, run>>
vars == <<dkVars, snVars, ufVars>>

\* Python's None where the other values are strings
None == "None"
NoError == "NoError"

RECURSIVE SeqsUpTo(_, _)
\* all sequences over S of length at most n
SeqsUpTo(S, n) ==
    IF n = 0 THEN {<<>>}
    ELSE LET shorter == SeqsUpTo(S, n - 1)
         IN shorter \cup {Append(s, x) : s \in {t \in shorter : Len(t) = n - 1},
                                          x \in S}

(***************************************************************************)
(* deprecated_keywords                                                     *)
(***************************************************************************)
\* bounds
MaxKeywords == 3
MaxKwargs == 2

\* the keyword names of the calls and of the old side of the table
Keys == {"a", "b", "c", "x"}
\* the new side of the table: a name that no table need deprecate, a name
\* that may itself be deprecated (a chain or a key mapped to itself), or None
NewKeys == {"x", "a", None}

\* ---- a Python dict: a sequence of <<key, value>> in insertion order ----
DictKeys(d) == [i \in DOMAIN d |-> d[i][1]]
Has(d, k) == \E i \in DOMAIN d : d[i][1] = k
Get(d, k) == d[CHOOSE i \in DOMAIN d : d[i][1] = k][2]
\* d[k] = v: an existing key keeps its position, a new one goes last
SetItem(d, k, v) ==
    IF Has(d, k) THEN [i \in DOMAIN d |-> IF d[i][1] = k THEN <<k, v>> ELSE d[i]]
    ELSE Append(d, <<k, v>>)
\* del d[k]
DelItem(d, k) == SelectSeq(d, LAMBDA e : e[1] # k)
IsDict(d) == \A i, j \in DOMAIN d : d[i][1] = d[j][1] => i = j

RECURSIVE CountLoop(_, _, _, _)
\* lines 78-80: the counting loop, from item i on, counts so far in c
CountLoop(kws, kw, i, c) ==
    IF i > Len(kws) THEN c
    ELSE LET key == kws[i][1]
             new_key == kws[i][2]
         IN IF Has(kw, key)
            THEN CountLoop(kws, kw, i + 1,
                           [c EXCEPT ![new_key] = c[new_key] + 1])
            ELSE CountLoop(kws, kw, i + 1, c)

\* lines 77-80
new_keyword_appearance_counts(kws, kw) ==
    CountLoop(kws, kw, 1,
              [k \in {kws[i][2] : i \in DOMAIN kws} |-> 0])

\* line 78 leaves the loop variable new_key bound to the last item's value
LeftoverNewKey(kws) == kws[Len(kws)][2]

\* line 90: the third argument of msg3 is new_key, not key_
ReportedNewKey(kws, key_) == LeftoverNewKey(kws)

\* lines 87-89: old keys of the table whose new key is key_, in table order
conflicting_keys(kws, key_) ==
    DictKeys(SelectSeq(kws, LAMBDA e : e[2] = key_))

\* the conflict scan without the None exemption of lines 84-85
FirstConflictCountingNone(kws, kw) ==
    LET c == new_keyword_appearance_counts(kws, kw)
        hits == {i \in DOMAIN kws : c[kws[i][2]] > 1}
    IN IF hits = {} THEN 0
       ELSE CHOOSE i \in hits : \A j \in hits : i <= j

\* lines 81-90: the index of the first value of the table that is not None
\* and counted more than once, 0 when there is none
FirstConflict(kws, kw) ==
    LET c == new_keyword_appearance_counts(kws, kw)
        hits == {i \in DOMAIN kws : kws[i][2] # None /\ c[kws[i][2]] > 1}
    IN IF hits = {} THEN 0
       ELSE CHOOSE i \in hits : \A j \in hits : i <= j

\* dk_error while nothing was raised
NoConflict == [keys |-> <<>>, new_key |-> None]

\* line 90: the fields substituted into msg3
ConflictMessage(kws, key_) ==
    [keys |-> conflicting_keys(kws, key_),
     new_key |-> ReportedNewKey(kws, key_)]

\* lines 103-104: kwargs[nkw] = kwargs[kw]; del kwargs[kw]
Rename(kw, old, nkw) == DelItem(SetItem(kw, nkw, Get(kw, old)), old)

RECURSIVE MapLoop(_, _, _, _, _)
\* lines 92-104: the loop over the snapshot list(kwargs), from position i on
MapLoop(kws, snapshot, i, kw, warns) ==
    IF i > Len(snapshot) THEN [kwargs |-> kw, warnings |-> warns]
    ELSE LET k == snapshot[i]
         IN IF ~Has(kws, k) THEN MapLoop(kws, snapshot, i + 1, kw, warns)
            ELSE LET nkw == Get(kws, k)
                 IN IF nkw = None
                    THEN MapLoop(kws, snapshot, i + 1, DelItem(kw, k),
                                 Append(warns, [kw |-> k, nkw |-> None]))
                    ELSE MapLoop(kws, snapshot, i + 1, Rename(kw, k, nkw),
                                 Append(warns, [kw |-> k, nkw |-> nkw]))

\* every dict with at most n keys from K and values from V
Dicts(K, V, n) ==
    {d \in SeqsUpTo(K \X V, n) : IsDict(d)}

\* the decorator's tables and the calls' keyword arguments; a value is
\* tagged with the key it was passed under, the code never looks inside
DKInit ==
    /\ keywords \in Dicts(Keys, NewKeys, MaxKeywords)
    /\ kwargs \in {d \in Dicts(Keys, Keys, MaxKwargs) :
                      \A i \in DOMAIN d : d[i][2] = d[i][1]}
    /\ kwargs0 = kwargs
    /\ dk_pc = "start"
    /\ dk_error = NoConflict
    /\ dk_warnings = <<>>
    /\ func_calls = <<>>

\* lines 77-90: the conflict check raises
RaiseConflict ==
    /\ dk_pc = "start"
    /\ FirstConflict(keywords, kwargs) # 0
    /\ dk_error' = ConflictMessage(keywords,
                       keywords[FirstConflict(keywords, kwargs)][2])
    /\ dk_pc' = "raised"
    /\ UNCHANGED <<keywords, kwargs, kwargs0, dk_warnings, func_calls>>
    /\ UNCHANGED <<snVars, ufVars>>

\* lines 77-105: no conflict, the keywords are mapped and func is called
MapAndCall ==
    /\ dk_pc = "start"
    /\ FirstConflict(keywords, kwargs) = 0
    /\ LET m == MapLoop(keywords, DictKeys(kwargs), 1, kwargs, <<>>)
       IN /\ kwargs' = m.kwargs
          /\ dk_warnings' = m.warnings
          /\ func_calls' = Append(func_calls, m.kwargs)
    /\ dk_pc' = "called"
    /\ UNCHANGED <<keywords, kwargs0, dk_error>>
    /\ UNCHANGED <<snVars, ufVars>>

DKNext == RaiseConflict \/ MapAndCall

(***************************************************************************)
(* skip_on_network_error                                                   *)
(***************************************************************************)
\* bound: number of runs of the wrapped test
MaxTests == 2

\* socket.timeout is a subclass of socket.error (OSError), which is a
\* subclass of Exception, which is a subclass of BaseException
ExcTypes == {"socket.timeout", "socket.error", "Exception", "BaseException"}
IsInstance(type, class) ==
    \/ type = class
    \/ class = "BaseException"
    \/ class = "Exception" /\ type \in {"socket.timeout", "socket.error"}
    \/ class = "socket.error" /\ type = "socket.timeout"

TimedOut == "timed out"
Errno110 == "[Errno 110] Connection timed out"
Messages == {TimedOut, Errno110, "Connection refused"}

\* what func does when called: return a value or raise type(msg)
FuncBehaviours ==
    [raised : {FALSE}, type : {None}, msg : {None}, value : {None, "v"}]
    \cup [raised : {TRUE}, type : ExcTypes, msg : Messages, value : {None}]

Returned(v) == [kind |-> "returned", type |-> None, msg |-> None, value |-> v]
Skipped(m) == [kind |-> "skipped", type |-> None, msg |-> m, value |-> None]
Raised(t, m) == [kind |-> "raised", type |-> t, msg |-> m, value |-> None]

\* lines 117-131: the try statement; a handler whose if is false falls off
\* the end of the function, which returns None
Handle(b) ==
    IF ~b.raised THEN Returned(b.value)
    ELSE IF IsInstance(b.type, "socket.timeout")
    THEN IF b.msg = TimedOut THEN Skipped(b.msg) ELSE Returned(None)
    ELSE IF IsInstance(b.type, "socket.error")
    THEN IF b.msg = Errno110 THEN Skipped(b.msg) ELSE Returned(None)
    ELSE Raised(b.type, b.msg)

SNInit ==
    /\ sn_pc = "start"
    /\ sn_exc = None
    /\ sn_log = <<>>

\* line 118: the wrapper calls func, which returns or raises
CallFunc ==
    /\ sn_pc = "start"
    /\ Len(sn_log) < MaxTests
    /\ \E b \in FuncBehaviours : sn_exc' = b
    /\ sn_pc' = "called"
    /\ UNCHANGED sn_log
    /\ UNCHANGED <<dkVars, ufVars>>

\* lines 118-131: the wrapper returns, skips or raises
Finish ==
    /\ sn_pc = "called"
    /\ sn_log' = Append(sn_log, [func |-> sn_exc, out |-> Handle(sn_exc)])
    /\ sn_pc' = "start"
    /\ sn_exc' = None
    /\ UNCHANGED <<dkVars, ufVars>>

SNNext == CallFunc \/ Finish

(***************************************************************************)
(* uncompress_file                                                         *)
(***************************************************************************)
\* bounds
MaxMembers == 2
MaxRuns == 2

\* file contents: b'' and two different non-empty byte strings
Bytes == {<<>>, <<1>>, <<2>>}

\* an archive member; a directory or special member carries no data
Members == {m \in [isfile : BOOLEAN, data : Bytes] :
               ~m.isfile => m.data = <<>>}

NoFail == -1
Suffixes == {"bz2", "gz", "other"}

\* the first argument when it is not a str, or names no existing file
NoFile(str) ==
    [is_str |-> str, exists |-> FALSE, is_tarfile |-> FALSE,
     is_zipfile |-> FALSE, suffix |-> "other", optout |-> FALSE,
     members |-> <<>>, failAt |-> NoFail, stream |-> <<>>,
     stream_bad |-> FALSE]

\* an existing file: what tarfile.is_tarfile and zipfile.is_zipfile say of
\* it, its suffix, whether the zip comment holds b'obspy_no_uncompress',
\* its members in archive order, where reading it raises (0: on open, i: at
\* member i), and what the bz2 or gz stream decompresses to. Fields that no
\* branch of the classification reads are left at their defaults.
Files ==
    {f \in [is_str : {TRUE}, exists : {TRUE}, is_tarfile : BOOLEAN,
            is_zipfile : BOOLEAN, suffix : Suffixes, optout : BOOLEAN,
            members : SeqsUpTo(Members, MaxMembers),
            failAt : NoFail .. MaxMembers, stream : Bytes,
            stream_bad : BOOLEAN] :
        /\ f.failAt <= Len(f.members)
        /\ f.optout => f.is_zipfile
        /\ ~(f.is_tarfile \/ f.is_zipfile)
              => f.members = <<>> /\ f.failAt = NoFail
        /\ (f.is_tarfile \/ f.is_zipfile \/ f.suffix = "other")
              => f.stream = <<>> /\ ~f.stream_bad
        /\ f.stream_bad => f.stream = <<>>}

Inputs ==
    {[check_compression |-> cc, file |-> f] :
        cc \in BOOLEAN, f \in Files \cup {NoFile(TRUE), NoFile(FALSE)}}

\* the path func is called with: filename itself, or a temporary file's name
OrigPath == 0

\* ---- what func returns: None or a Stream, a sequence of traces ----
NoneResult == [isNone |-> TRUE, traces |-> <<>>]
Stream(t) == [isNone |-> FALSE, traces |-> t]
ReaderErrors == {"E1", "E2"}
ReaderOutcomes ==
    [raised : {FALSE}, err : {NoError},
     val : {NoneResult, Stream(<<1>>), Stream(<<2>>)}]
    \cup [raised : {TRUE}, err : ReaderErrors, val : {NoneResult}]

\* ---- obj_list: None or a list of payloads ----
NoneList == [isNone |-> TRUE, items |-> <<>>]
List(l) == [isNone |-> FALSE, items |-> l]
\* line 194: if obj_list
Truthy(ol) == ~ol.isNone /\ ol.items # <<>>

\* the spec's ArchiveKind: the branch of lines 148-192 the file takes
Kind(f) ==
    IF f.is_tarfile THEN "Tar"
    ELSE IF f.is_zipfile THEN "Zip"
    ELSE IF f.suffix = "bz2" THEN "Bzip2"
    ELSE IF f.suffix = "gz" THEN "Gzip"
    ELSE "NotAnArchive"

RECURSIVE TarLoop(_, _, _)
\* lines 152-162: the loop over the tar members from member i on; an
\* exception at member f.failAt leaves obj_list as appended to so far
TarLoop(f, i, acc) ==
    IF i > Len(f.members) \/ i = f.failAt THEN acc
    ELSE IF ~f.members[i].isfile THEN TarLoop(f, i + 1, acc)
    ELSE IF f.members[i].data = <<>> THEN TarLoop(f, i + 1, acc)
    ELSE TarLoop(f, i + 1, Append(acc, f.members[i].data))

\* lines 149-164
ExtractTar(f) ==
    IF f.failAt = 0 THEN List(<<>>) ELSE List(TarLoop(f, 1, <<>>))

\* lines 166-176 without the test of the comment of lines 168-172
ExtractZipIgnoringComment(f) ==
    IF f.failAt # NoFail THEN List(<<>>)
    ELSE List([i \in DOMAIN f.members |-> f.members[i].data])

\* lines 166-176: the list comprehension assigns obj_list only when every
\* member was read
ExtractZip(f) ==
    IF f.failAt = 0 THEN List(<<>>)
    ELSE IF f.optout THEN NoneList
    ELSE IF f.failAt # NoFail THEN List(<<>>)
    ELSE List([i \in DOMAIN f.members |-> f.members[i].data])

\* lines 179-184 and 187-192
ExtractStream(f) ==
    IF f.stream_bad THEN List(<<>>) ELSE List(<<f.stream>>)

\* lines 147-192
Extract(f) ==
    IF f.is_tarfile THEN ExtractTar(f)
    ELSE IF f.is_zipfile THEN ExtractZip(f)
    ELSE IF f.suffix = "bz2" THEN ExtractStream(f)
    ELSE IF f.suffix = "gz" THEN ExtractStream(f)
    ELSE List(<<>>)

\* ---- the temporary files: a function from the names that exist ----
NoTemps == [n \in {} |-> <<>>]
\* NamedTemporaryFile(): a new, empty file under a name never used before
NamedTemporaryFile(tmps, name) ==
    [n \in DOMAIN tmps \cup {name} |-> IF n = name THEN <<>> ELSE tmps[n]]
\* NamedTemporaryFile.__exit__: the file is closed and deleted
TempExit(tmps, name) == [n \in DOMAIN tmps \ {name} |-> tmps[n]]
\* line 199: tempfile._fileobj.write(obj)
Write(tmps, name, obj) == [tmps EXCEPT ![name] = tmps[name] \o obj]

\* the with block left by an exception without the file being deleted
LeaveWithOnRaiseKeepingFile(tmps, name) == tmps
\* lines 198-205: an exception inside the with block runs __exit__
LeaveWithOnRaise(tmps, name) == TempExit(tmps, name)

\* result += stream with the operands swapped
CombineSwapped(a, b) == Stream(b.traces \o a.traces)
\* line 205: result += stream, Stream.__iadd__ appends the other's traces
Combine(a, b) == Stream(a.traces \o b.traces)

\* lines 200-205 with the reader's exception caught like the extraction's
AfterReaderSwallowing(res, out) ==
    IF out.raised
    THEN [pc |-> "exit", result |-> res, error |-> NoError]
    ELSE IF res.isNone
    THEN [pc |-> "exit", result |-> out.val, error |-> NoError]
    ELSE IF out.val.isNone
    THEN [pc |-> "raised", result |-> res, error |-> "TypeError"]
    ELSE [pc |-> "exit", result |-> Combine(res, out.val), error |-> NoError]

\* lines 200-205: what the call of func and the merge leave behind
AfterReader(res, out) ==
    IF out.raised
    THEN [pc |-> "raised", result |-> res, error |-> out.err]
    ELSE IF res.isNone
    THEN [pc |-> "exit", result |-> out.val, error |-> NoError]
    ELSE IF out.val.isNone
    THEN [pc |-> "raised", result |-> res, error |-> "TypeError"]
    ELSE [pc |-> "exit", result |-> Combine(res, out.val), error |-> NoError]

UFInit ==
    /\ input \in Inputs
    /\ uf_pc = "start"
    /\ obj_list = List(<<>>)
    /\ idx = 0
    /\ result = NoneResult
    /\ temps = NoTemps
    /\ ntemp = 0
    /\ ntemp0 = 0
    /\ tempfile = 0
    /\ calls = <<>>
    /\ uf_error = NoError
    /\ run = 1

\* func(filename, *args, **kwargs) of lines 140, 142 and 208
DirectCall ==
    \E out \in ReaderOutcomes :
        /\ calls' = Append(calls, [path |-> OrigPath, data |-> <<>>,
                                   out |-> out])
        /\ IF out.raised
           THEN uf_pc' = "raised" /\ uf_error' = out.err /\ UNCHANGED result
           ELSE uf_pc' = "returned" /\ result' = out.val
                /\ UNCHANGED uf_error

\* lines 139-142: check_compression is false or filename is not a str
CallDirectly ==
    /\ uf_pc = "start"
    /\ ~input.check_compression \/ ~input.file.is_str
    /\ DirectCall
    /\ UNCHANGED <<input, obj_list, idx, temps, ntemp, ntemp0, tempfile, run>>
    /\ UNCHANGED <<dkVars, snVars>>

\* lines 143-145
FileNotFound ==
    /\ uf_pc = "start"
    /\ input.check_compression /\ input.file.is_str
    /\ ~input.file.exists
    /\ uf_pc' = "raised"
    /\ uf_error' = "IOError"
    /\ UNCHANGED <<input, obj_list, idx, result, temps, ntemp, ntemp0,
                   tempfile, calls, run>>
    /\ UNCHANGED <<dkVars, snVars>>

\* lines 146-196: classification and extraction, up to the for statement
Sniff ==
    /\ uf_pc = "start"
    /\ input.check_compression /\ input.file.is_str
    /\ input.file.exists
    /\ obj_list' = Extract(input.file)
    /\ IF Truthy(obj_list')
       THEN uf_pc' = "for" /\ idx' = 1 /\ result' = NoneResult
       ELSE uf_pc' = "else" /\ UNCHANGED <<idx, result>>
    /\ UNCHANGED <<input, temps, ntemp, ntemp0, tempfile, calls, uf_error,
                   run>>
    /\ UNCHANGED <<dkVars, snVars>>

\* lines 206-209
NoCompression ==
    /\ uf_pc = "else"
    /\ DirectCall
    /\ UNCHANGED <<input, obj_list, idx, temps, ntemp, ntemp0, tempfile, run>>
    /\ UNCHANGED <<dkVars, snVars>>

\* line 198: with NamedTemporaryFile() as tempfile
EnterWith ==
    /\ uf_pc = "for"
    /\ idx <= Len(obj_list.items)
    /\ ntemp' = ntemp + 1
    /\ tempfile' = ntemp + 1
    /\ temps' = NamedTemporaryFile(temps, ntemp + 1)
    /\ uf_pc' = "with"
    /\ UNCHANGED <<input, obj_list, idx, result, ntemp0, calls, uf_error, run>>
    /\ UNCHANGED <<dkVars, snVars>>

\* line 199
WriteObj ==
    /\ uf_pc = "with"
    /\ temps' = Write(temps, tempfile, obj_list.items[idx])
    /\ uf_pc' = "call"
    /\ UNCHANGED <<input, obj_list, idx, result, ntemp, ntemp0, tempfile,
                   calls, uf_error, run>>
    /\ UNCHANGED <<dkVars, snVars>>

\* lines 200-205: func(tempfile.name, ...) and the merge of its result; an
\* exception leaves the with block and the function
CallReader ==
    /\ uf_pc = "call"
    /\ \E out \in ReaderOutcomes :
        LET after == AfterReader(result, out)
        IN /\ calls' = Append(calls, [path |-> tempfile,
                                      data |-> temps[tempfile], out |-> out])
           /\ uf_pc' = after.pc
           /\ result' = after.result
           /\ uf_error' = after.error
           /\ IF after.pc = "raised"
              THEN temps' = LeaveWithOnRaise(temps, tempfile) /\ tempfile' = 0
              ELSE UNCHANGED <<temps, tempfile>>
    /\ UNCHANGED <<input, obj_list, idx, ntemp, ntemp0, run>>
    /\ UNCHANGED <<dkVars, snVars>>

\* lines 198-209: the with block ends, the loop goes on or result is
\* returned
ExitWith ==
    /\ uf_pc = "exit"
    /\ temps' = TempExit(temps, tempfile)
    /\ tempfile' = 0
    /\ idx' = idx + 1
    /\ uf_pc' = IF idx + 1 > Len(obj_list.items) THEN "returned" ELSE "for"
    /\ UNCHANGED <<input, obj_list, result, ntemp, ntemp0, calls, uf_error,
                   run>>
    /\ UNCHANGED <<dkVars, snVars>>

\* the caller calls the decorated function again, on the same input
CallAgain ==
    /\ uf_pc \in {"returned", "raised"}
    /\ run < MaxRuns
    /\ run' = run + 1
    /\ uf_pc' = "start"
    /\ obj_list' = List(<<>>)
    /\ idx' = 0
    /\ result' = NoneResult
    /\ ntemp0' = ntemp
    /\ calls' = <<>>
    /\ uf_error' = NoError
    /\ UNCHANGED <<input, temps, ntemp, tempfile>>
    /\ UNCHANGED <<dkVars, snVars>>

UFNext ==
    \/ CallDirectly
    \/ FileNotFound
    \/ Sniff
    \/ NoCompression
    \/ EnterWith
    \/ WriteObj
    \/ CallReader
    \/ ExitWith
    \/ CallAgain

(***************************************************************************)
(* The specifications: each runs one wrapper and leaves the variables of   *)
(* the other two at their initial values.                                  *)
(***************************************************************************)
DKIdle ==
    /\ keywords = <<>> /\ kwargs = <<>> /\ kwargs0 = <<>>
    /\ dk_pc = "idle" /\ dk_error = NoConflict
    /\ dk_warnings = <<>> /\ func_calls = <<>>
SNIdle == sn_pc = "idle" /\ sn_exc = None /\ sn_log = <<>>
UFIdle ==
    /\ input = [check_compression |-> FALSE, file |-> NoFile(FALSE)]
    /\ uf_pc = "idle" /\ obj_list = List(<<>>) /\ idx = 0
    /\ result = NoneResult /\ temps = NoTemps /\ ntemp = 0 /\ ntemp0 = 0
    /\ tempfile = 0 /\ calls = <<>> /\ uf_error = NoError /\ run = 1

Init == UFInit /\ DKIdle /\ SNIdle
Next == UFNext
Spec == Init /\ [][Next]_vars

InitKeywords == DKInit /\ SNIdle /\ UFIdle
NextKeywords == DKNext
SpecKeywords == InitKeywords /\ [][NextKeywords]_vars

InitSkip == SNInit /\ DKIdle /\ UFIdle
NextSkip == SNNext
SpecSkip == InitSkip /\ [][NextSkip]_vars

(***************************************************************************)
(* Properties of deprecated_keywords, checked under SpecKeywords           *)
(***************************************************************************)
DictKeySet(d) == {d[i][1] : i \in DOMAIN d}

\* the deprecated keys present in the call's arguments that map to nk
PresentOldKeys(kws, kw, nk) ==
    {k \in DictKeySet(kws) : k \in DictKeySet(kw) /\ Get(kws, k) = nk}

\* two or more deprecated keys present in the arguments map to the same
\* replacement key that is not None
Contested(kws, kw, nk) ==
    nk # None /\ Cardinality(PresentOldKeys(kws, kw, nk)) >= 2

HasConflict(kws, kw) == \E nk \in Keys : Contested(kws, kw, nk)

\* C7: echo_func raises the conflict error if and only if two or more
\* deprecated keys present in the arguments map to the same replacement key
\* that is not None; when it raises, kwargs is as the caller passed it, no
\* warning was emitted and func was not called.
C7_ConflictIffContested ==
    /\ dk_pc = "raised" =>
          /\ HasConflict(keywords, kwargs0)
          /\ kwargs = kwargs0
          /\ dk_warnings = <<>>
          /\ func_calls = <<>>
    /\ dk_pc = "called" => ~HasConflict(keywords, kwargs0)

\* a conflict is raised although the table also drops a key (None target)
C7_Witness ==
    /\ dk_pc = "raised"
    /\ Len(kwargs0) = 2
    /\ \E i \in DOMAIN keywords : keywords[i][2] = None

\* C8: the conflict error lists exactly the deprecated keys present in the
\* arguments that map to the contested replacement key, and names that
\* replacement key.
C8_ErrorNamesOffenders ==
    dk_pc = "raised" =>
        \E nk \in Keys :
            /\ Contested(keywords, kwargs0, nk)
            /\ {dk_error.keys[i] : i \in DOMAIN dk_error.keys}
                 = PresentOldKeys(keywords, kwargs0, nk)
            /\ dk_error.new_key = nk

\* C9: without a conflict func is called exactly once, and in the mapping it
\* gets every present deprecated key with target None is absent, the value
\* of every present deprecated key with another target is under that target,
\* and every key that is neither deprecated nor such a target is unchanged.
C9_RemappedArguments ==
    dk_pc = "called" =>
        /\ Len(func_calls) = 1
        /\ LET final == func_calls[1]
               present == {k \in DictKeySet(kwargs0) : Has(keywords, k)}
               targets == {Get(keywords, k) : k \in present} \ {None}
           IN /\ \A k \in present :
                    IF Get(keywords, k) = None
                    THEN ~Has(final, k)
                    ELSE /\ Has(final, Get(keywords, k))
                         /\ Get(final, Get(keywords, k)) = Get(kwargs0, k)
              /\ \A k \in DictKeySet(kwargs0) \ (DictKeySet(keywords)
                                                   \cup targets) :
                    Has(final, k) /\ Get(final, k) = Get(kwargs0, k)

(***************************************************************************)
(* Property of skip_on_network_error, checked under SpecSkip               *)
(***************************************************************************)
\* C10: whenever func raised, the wrapper either skipped the test, and then
\* the exception was a socket.timeout saying "timed out" or a socket.error
\* saying "[Errno 110] Connection timed out", or raised the same exception;
\* it did not return.
C10_NeverSwallows ==
    \A i \in DOMAIN sn_log :
        LET f == sn_log[i].func
            o == sn_log[i].out
        IN f.raised =>
             \/ /\ o.kind = "skipped"
                /\ \/ IsInstance(f.type, "socket.timeout") /\ f.msg = TimedOut
                   \/ IsInstance(f.type, "socket.error") /\ f.msg = Errno110
             \/ o.kind = "raised" /\ o.type = f.type /\ o.msg = f.msg

(***************************************************************************)
(* Properties of uncompress_file, checked under Spec                       *)
(***************************************************************************)
Finished == uf_pc \in {"returned", "raised"}
\* the run went past line 142 and found the file
Sniffed ==
    input.check_compression /\ input.file.is_str /\ input.file.exists

\* C1: at most one temporary file exists at any moment, none exists when the
\* run has returned or raised, and a temporary file is only created while no
\* other exists (the file of payload i is gone before that of payload i+1
\* is made).
C1_TempFilesReleased ==
    /\ [](/\ Cardinality(DOMAIN temps) <= 1
          /\ Finished => temps = NoTemps)
    /\ [][ntemp' # ntemp => temps = NoTemps]_vars

\* the reader raised on the second payload of a run and the error went out
C1_Witness ==
    /\ uf_pc = "raised"
    /\ Len(calls) = 2
    /\ calls[2].out.raised
    /\ calls[2].path # OrigPath
    /\ ntemp = ntemp0 + 2

RECURSIVE ConcatTraces(_, _)
\* the traces of the results of the first n calls, one after the other
ConcatTraces(cs, n) ==
    IF n = 0 THEN <<>>
    ELSE ConcatTraces(cs, n - 1) \o cs[n].out.val.traces

\* a tar or zip archive that is read without an error and whose members are
\* all regular files with data
HealthyArchive(f) ==
    /\ Kind(f) \in {"Tar", "Zip"}
    /\ f.failAt = NoFail
    /\ Kind(f) = "Zip" => ~f.optout
    /\ Len(f.members) >= 1
    /\ \A i \in DOMAIN f.members :
          f.members[i].isfile /\ f.members[i].data # <<>>

\* C2: for a healthy archive of N members, with check_compression true and a
\* reader that returns a Stream every time, the run returns after exactly N
\* calls of the reader, call i being on a temporary file that holds member
\* i's bytes, and the result is r1 + r2 + ... + rN in that order.
C2_FoldInMemberOrder ==
    (/\ uf_pc = "returned"
     /\ Sniffed
     /\ HealthyArchive(input.file)
     /\ \A i \in DOMAIN calls : ~calls[i].out.val.isNone)
    => /\ Len(calls) = Len(input.file.members)
       /\ \A i \in DOMAIN calls :
             /\ calls[i].path # OrigPath
             /\ calls[i].data = input.file.members[i].data
             /\ ~calls[i].out.raised
       /\ ~result.isNone
       /\ result.traces = ConcatTraces(calls, Len(calls))

\* a tar archive of two different members, read into two different results
C2_Witness ==
    /\ uf_pc = "returned"
    /\ Sniffed
    /\ HealthyArchive(input.file)
    /\ Kind(input.file) = "Tar"
    /\ Len(calls) = 2
    /\ calls[1].data = <<1>> /\ calls[2].data = <<2>>
    /\ calls[1].out.val = Stream(<<2>>) /\ calls[2].out.val = Stream(<<1>>)
    /\ result = Stream(<<2, 1>>)

\* C3: when the reader raises on payload k, that call is the last call of
\* the run, every call of the run was on a payload's temporary file (k of
\* them were created), the run has ended by raising the reader's error, and
\* no temporary file is left.
C3_ReaderErrorPropagates ==
    \A k \in DOMAIN calls :
        (calls[k].out.raised /\ calls[k].path # OrigPath)
        => /\ k = Len(calls)
           /\ k <= Len(obj_list.items)
           /\ \A j \in 1 .. k : calls[j].path # OrigPath
           /\ \A j \in 1 .. k - 1 : ~calls[j].out.raised
           /\ ntemp = ntemp0 + k
           /\ uf_pc = "raised"
           /\ uf_error = calls[k].out.err
           /\ temps = NoTemps

\* the reader raised on the first of two payloads
C3_Witness ==
    /\ uf_pc = "raised"
    /\ Len(obj_list.items) = 2
    /\ Len(calls) = 1
    /\ calls[1].out.raised
    /\ calls[1].path # OrigPath

\* reading the file raises somewhere in lines 149-192
ExtractionRaises(f) ==
    IF Kind(f) = "Tar" THEN f.failAt # NoFail
    ELSE IF Kind(f) = "Zip"
    THEN f.failAt = 0 \/ (~f.optout /\ f.failAt # NoFail)
    ELSE IF Kind(f) \in {"Gzip", "Bzip2"} THEN f.stream_bad
    ELSE FALSE

\* C4: when the extraction of an existing file raises, no temporary file is
\* created and the run ends after exactly one call of the reader, on the
\* original path, with that call's result or error.
C4_CorruptArchiveFallsBack ==
    (Sniffed /\ ExtractionRaises(input.file))
    => /\ ntemp = ntemp0
       /\ Finished =>
             /\ Len(calls) = 1
             /\ calls[1].path = OrigPath
             /\ uf_error = calls[1].out.err

\* C5: every payload handed to the reader in a temporary file is non-empty.
C5_PayloadsNonEmpty ==
    \A i \in DOMAIN calls :
        calls[i].path # OrigPath => calls[i].data # <<>>

\* check_compression is false, filename is not a str, or the file is a zip
\* archive whose comment holds the marker
Bypassed ==
    \/ ~input.check_compression
    \/ ~input.file.is_str
    \/ Kind(input.file) = "Zip" /\ input.file.optout

====
